---- MODULE Spec2Model ----
(***************************************************************************)
(* A model of models/resnet.py: the links SEBlock, BottleNeck, Block and   *)
(* ResNet (with its depth presets), their constructors and their forward   *)
(* calls.  Tensors are followed by their shape; the SEBlock gate is        *)
(* followed element by element.                                            *)
(***************************************************************************)
EXTENDS Integers, Sequences, FiniteSets, TLC

VARIABLES
    pc,      \* "start", "constructed" (no forward call yet), "called"
    call,    \* the constructor call that built net
    net,     \* the constructed link
    x,       \* shape of the input of the latest forward call
    y,       \* shape of its result, Err when it raised
    log,     \* one record per BottleNeck unit evaluated by the latest call
    u,       \* SEBlock: the input tensor of the latest call
    gate,    \* SEBlock: the value of x after F.sigmoid(self.up(x))
    out      \* SEBlock: the returned tensor

vars == <<pc, call, net, x, y, log, u, gate, out>>

----------------------------------------------------------------------------
(* Bounds of the model. *)

MaxBatch == 2       \* batch sizes 1..MaxBatch
MaxSize == 3        \* input heights and widths 1..MaxSize, and 32
MaxBlocks == 2      \* n_bottlenecks, and the entries of n_blocks: 0..MaxBlocks
MaxStride == 2      \* strides 1..MaxStride
MaxDim == 2         \* SEBlock inputs: every dimension in 1..MaxDim

\* ResNet.__init__: n_class=10, n_blocks=[3, 4, 6, 3]
DefaultNClass == 10
DefaultNBlocks == <<3, 4, 6, 3>>

Widths == {16, 64}               \* channel widths of links constructed directly
InChannels == {3} \cup Widths    \* channel counts of input tensors
NClasses == {2, DefaultNClass}
Seeds == {0, 1}                  \* SEBlock inputs: the tensors Input(shape, seed)
GateVals == {2, 3}               \* values standing for distinct gate levels

----------------------------------------------------------------------------
(* Shapes.  A shape is a tuple of positive integers; Err stands for a call *)
(* that raised instead of returning.                                       *)

None == -1
Err == <<>>

NoNet == [kind |-> "none"]
NoCall == [ctor |-> "none"]
NoTensor == [shape |-> Err, data |-> <<>>]

\* chainer.utils.get_conv_outsize(size, k, s, p), cover_all=False
conv_outsize(size, k, s, p) == ((size + 2 * p - k) \div s) + 1

----------------------------------------------------------------------------
(* Constructors of the library links.  params maps each parameter of the   *)
(* link to whether its array is allocated.                                 *)

\* L.Convolution2D(in_channels, out_channels, ksize, stride, pad, nobias, initialW)
Convolution2D(in_channels, out_channels, ksize, stride, pad, nobias) ==
    [kind |-> "Convolution2D", in_channels |-> in_channels,
     out_channels |-> out_channels, ksize |-> ksize, stride |-> stride,
     pad |-> pad,
     params |-> IF nobias THEN ("W" :> (in_channels # None))
                ELSE ("W" :> (in_channels # None)) @@ ("b" :> TRUE)]

\* L.BatchNormalization(size)
BatchNormalization(size) ==
    [kind |-> "BatchNormalization", size |-> size,
     params |-> ("gamma" :> TRUE) @@ ("beta" :> TRUE)]

\* L.Linear(in_size, out_size)
Linear(in_size, out_size) ==
    [kind |-> "Linear", in_size |-> in_size, out_size |-> out_size,
     params |-> ("W" :> (in_size # None)) @@ ("b" :> TRUE)]

----------------------------------------------------------------------------
(* Constructors of the repository's links. *)

DefaultRatio == 16

SEBlock(n_channel, ratio) ==
    LET reduction_size == n_channel \div ratio
    IN  [kind |-> "SEBlock",
         links |-> [down |-> Linear(n_channel, reduction_size),
                    up |-> Linear(reduction_size, n_channel)]]

\* BottleNeck.__init__; n_in, n_out and stride are kept beside the links
\* they configure (conv1, conv3, conv4) for the properties to read.
BottleNeck(n_in, n_mid, n_out, stride, use_conv, add_seblock) ==
    [kind |-> "BottleNeck",
     links |->
        [conv1 |-> Convolution2D(n_in, n_mid, 1, stride, 0, TRUE),
         bn1 |-> BatchNormalization(n_mid),
         conv2 |-> Convolution2D(n_mid, n_mid, 3, 1, 1, TRUE),
         bn2 |-> BatchNormalization(n_mid),
         conv3 |-> Convolution2D(n_mid, n_out, 1, 1, 0, TRUE),
         bn3 |-> BatchNormalization(n_out)]
        @@ (IF add_seblock THEN [se |-> SEBlock(n_out, DefaultRatio)] ELSE <<>>)
        @@ (IF use_conv
            THEN [conv4 |-> Convolution2D(n_in, n_out, 1, stride, 0, TRUE),
                  bn4 |-> BatchNormalization(n_out)]
            ELSE <<>>),
     n_in |-> n_in, n_out |-> n_out, stride |-> stride,
     use_conv |-> use_conv, add_seblock |-> add_seblock]

\* BottleNeck(n_in, n_mid, n_out): stride=1, use_conv=False, add_seblock=False
BottleNeckDefault(n_in, n_mid, n_out) ==
    BottleNeck(n_in, n_mid, n_out, 1, FALSE, FALSE)

\* Block.__init__ with the stride handed to the remaining units too
BlockRestStrided(n_in, n_mid, n_out, n_bottlenecks, stride) ==
    [kind |-> "Block",
     children |->
        <<BottleNeck(n_in, n_mid, n_out, stride, TRUE, FALSE)>>
        \o [i \in 1..(n_bottlenecks - 1) |->
               BottleNeck(n_out, n_mid, n_out, stride, FALSE, FALSE)]]

\* Block.__init__ with every unit built like the first one
BlockEveryUnitFirst(n_in, n_mid, n_out, n_bottlenecks, stride) ==
    [kind |-> "Block",
     children |->
        <<BottleNeck(n_in, n_mid, n_out, stride, TRUE, FALSE)>>
        \o [i \in 1..(n_bottlenecks - 1) |->
               BottleNeck(n_out, n_mid, n_out, stride, TRUE, FALSE)]]

\* Block.__init__ with a projection shortcut in the remaining units
BlockRestProjected(n_in, n_mid, n_out, n_bottlenecks, stride) ==
    [kind |-> "Block",
     children |->
        <<BottleNeck(n_in, n_mid, n_out, stride, TRUE, FALSE)>>
        \o [i \in 1..(n_bottlenecks - 1) |->
               BottleNeck(n_out, n_mid, n_out, 1, TRUE, FALSE)]]

\* Block.__init__ passing True for add_seblock as well
BlockFirstGated(n_in, n_mid, n_out, n_bottlenecks, stride) ==
    [kind |-> "Block",
     children |->
        <<BottleNeck(n_in, n_mid, n_out, stride, TRUE, TRUE)>>
        \o [i \in 1..(n_bottlenecks - 1) |-> BottleNeckDefault(n_out, n_mid, n_out)]]

\* Block.__init__: a ChainList; range(n_bottlenecks - 1) is empty when
\* n_bottlenecks <= 1.
Block(n_in, n_mid, n_out, n_bottlenecks, stride) ==
    [kind |-> "Block",
     children |->
        <<BottleNeck(n_in, n_mid, n_out, stride, TRUE, FALSE)>>
        \o [i \in 1..(n_bottlenecks - 1) |-> BottleNeckDefault(n_out, n_mid, n_out)]]

\* ResNet.__init__ with res5 wired to the width res3 produces
ResNetMiswired(n_class, n_blocks) ==
    [kind |-> "ResNet",
     links |->
        [conv1 |-> Convolution2D(None, 64, 3, 1, 0, TRUE),
         bn2 |-> BatchNormalization(64),
         res3 |-> Block(64, 64, 256, n_blocks[1], 1),
         res4 |-> Block(256, 128, 512, n_blocks[2], 2),
         res5 |-> Block(256, 256, 1024, n_blocks[3], 2),
         res6 |-> Block(1024, 512, 2048, n_blocks[4], 2),
         fc7 |-> Linear(None, n_class)]]

\* ResNet.__init__ with the stem's input channels written out
ResNetExplicitStem(n_class, n_blocks) ==
    [kind |-> "ResNet",
     links |->
        [conv1 |-> Convolution2D(3, 64, 3, 1, 0, TRUE),
         bn2 |-> BatchNormalization(64),
         res3 |-> Block(64, 64, 256, n_blocks[1], 1),
         res4 |-> Block(256, 128, 512, n_blocks[2], 2),
         res5 |-> Block(512, 256, 1024, n_blocks[3], 2),
         res6 |-> Block(1024, 512, 2048, n_blocks[4], 2),
         fc7 |-> Linear(None, n_class)]]

ResNet(n_class, n_blocks) ==
    [kind |-> "ResNet",
     links |->
        [conv1 |-> Convolution2D(None, 64, 3, 1, 0, TRUE),
         bn2 |-> BatchNormalization(64),
         res3 |-> Block(64, 64, 256, n_blocks[1], 1),
         res4 |-> Block(256, 128, 512, n_blocks[2], 2),
         res5 |-> Block(512, 256, 1024, n_blocks[3], 2),
         res6 |-> Block(1024, 512, 2048, n_blocks[4], 2),
         fc7 |-> Linear(None, n_class)]]

ResNet50(n_class) == ResNet(n_class, <<3, 4, 6, 3>>)

\* ResNet101 with the counts of ResNet50
ResNet101Shallow(n_class) == ResNet(n_class, <<3, 4, 6, 3>>)

ResNet101(n_class) == ResNet(n_class, <<3, 4, 23, 3>>)

ResNet152(n_class) == ResNet(n_class, <<3, 8, 36, 3>>)

----------------------------------------------------------------------------
(* Forward calls of the library links and functions, on shapes. *)

RECURSIVE Prod(_)
Prod(s) == IF s = <<>> THEN 1 ELSE Head(s) * Prod(Tail(s))

\* Link.__call__ of a Convolution2D whose W is not allocated yet:
\* _initialize_params(x.shape[1])
ConvInit(f, s) ==
    IF f.params["W"] \/ Len(s) < 2 THEN f
    ELSE [f EXCEPT !.in_channels = s[2], !.params = [@ EXCEPT !["W"] = TRUE]]

\* F.convolution_2d: the input's channels must be W's, and the output must
\* keep a positive extent.
ConvShape(f, s) ==
    IF Len(s) # 4 \/ ~f.params["W"] THEN Err
    ELSE IF s[2] # f.in_channels THEN Err
    ELSE LET oh == conv_outsize(s[3], f.ksize, f.stride, f.pad)
             ow == conv_outsize(s[4], f.ksize, f.stride, f.pad)
         IN  IF oh <= 0 \/ ow <= 0 THEN Err
             ELSE <<s[1], f.out_channels, oh, ow>>

BNShape(f, s) ==
    IF Len(s) < 2 THEN Err
    ELSE IF s[2] # f.size THEN Err
    ELSE s

relu(s) == s

sigmoid(s) == s

\* Linear.__call__ with W not allocated: _initialize_params(x.size // x.shape[0])
LinearInit(f, s) ==
    IF f.params["W"] \/ Len(s) < 2 THEN f
    ELSE [f EXCEPT !.in_size = Prod(Tail(s)), !.params = [@ EXCEPT !["W"] = TRUE]]

\* F.linear: x is taken as (batch, everything else)
LinearShape(f, s) ==
    IF Len(s) < 2 \/ ~f.params["W"] THEN Err
    ELSE IF Prod(Tail(s)) # f.in_size THEN Err
    ELSE <<s[1], f.out_size>>

\* F.average(u, axis=(2, 3))
AverageShape(s) == IF Len(s) # 4 THEN Err ELSE <<s[1], s[2]>>

\* F.average_pooling_2d(h, ksize): stride=ksize, pad=0
AveragePooling2DShape(s, ksize) ==
    IF Len(s) # 4 THEN Err
    ELSE LET oh == conv_outsize(s[3], ksize[1], ksize[1], 0)
             ow == conv_outsize(s[4], ksize[2], ksize[2], 0)
         IN  IF oh <= 0 \/ ow <= 0 THEN Err ELSE <<s[1], s[2], oh, ow>>

\* F.broadcast_to(x, shape): the dimensions of x are matched with the
\* trailing dimensions of shape; each is that dimension or 1.
BroadcastToShape(s, shape) ==
    LET k == Len(s)
        r == Len(shape)
    IN  IF k = 0 \/ k > r THEN Err
        ELSE IF \A j \in 1..k : s[j] = shape[r - k + j] \/ s[j] = 1 THEN shape
        ELSE Err

\* x.transpose(axes): axis k of the result is axis axes[k] of x (from 0)
TransposeShape(s, axes) ==
    IF Len(s) # Len(axes) \/ Len(s) = 0 THEN Err
    ELSE [k \in 1..Len(axes) |-> s[axes[k] + 1]]

\* the arithmetic operators of Variable: both operands of one shape
ElementwiseShape(a, b) == IF a = Err \/ b = Err \/ a # b THEN Err ELSE a

----------------------------------------------------------------------------
(* The same functions on tensors: [shape, data], data a function of the    *)
(* index tuples (from 1).                                                  *)

MaxOf(s) == CHOOSE m \in {s[k] : k \in 1..Len(s)} : \A k \in 1..Len(s) : s[k] <= m

Idx(shape) ==
    IF shape = Err THEN {}
    ELSE {i \in [1..Len(shape) -> 1..MaxOf(shape)] :
             \A k \in 1..Len(shape) : i[k] <= shape[k]}

Tensor(shape, data) == IF shape = Err THEN NoTensor ELSE [shape |-> shape, data |-> data]

broadcast_to(t, shape) ==
    LET k == Len(t.shape)
        r == Len(shape)
        s == BroadcastToShape(t.shape, shape)
    IN  IF s = Err THEN NoTensor
        ELSE Tensor(s, [i \in Idx(s) |->
                 t.data[[j \in 1..k |-> IF t.shape[j] = 1 THEN 1 ELSE i[r - k + j]]]])

transpose(t, axes) ==
    LET s == TransposeShape(t.shape, axes)
        r == Len(axes)
        pos(m) == CHOOSE k \in 1..r : axes[k] + 1 = m
    IN  IF s = Err THEN NoTensor
        ELSE Tensor(s, [i \in Idx(s) |-> t.data[[m \in 1..r |-> i[pos(m)]]]])

Mul(a, b) ==
    LET s == ElementwiseShape(a.shape, b.shape)
    IN  IF s = Err THEN NoTensor
        ELSE Tensor(s, [i \in Idx(s) |-> a.data[i] * b.data[i]])

----------------------------------------------------------------------------
(* Forward calls of the repository's links. *)

\* SEBlock.__call__, lines 32-36 on shapes: the shape of the gate
SEGateShape(se, s) ==
    LET z == AverageShape(s)
        x1 == relu(LinearShape(se.links.down, z))
    IN  sigmoid(LinearShape(se.links.up, x1))

\* SEBlock.__call__ on shapes
SEBlockShape(se, s) ==
    IF Len(s) # 4 THEN Err
    ELSE LET B == s[1]
             C == s[2]
             H == s[3]
             W == s[4]
             x1 == BroadcastToShape(SEGateShape(se, s), <<H, W, B, C>>)
             x2 == TransposeShape(x1, <<2, 3, 0, 1>>)
         IN  ElementwiseShape(s, x2)

\* SEBlock.__call__ broadcasting the gate to (B, C, H, W) with no transpose
SEBlockCallNoTranspose(se, t, g) ==
    IF Len(t.shape) # 4 THEN NoTensor
    ELSE LET B == t.shape[1]
             C == t.shape[2]
             H == t.shape[3]
             W == t.shape[4]
             x0 == Tensor(SEGateShape(se, t.shape), g)
             x1 == broadcast_to(x0, <<B, C, H, W>>)
         IN  Mul(t, x1)

\* SEBlock.__call__ on a tensor u; g is the data F.sigmoid(self.up(x)) has,
\* which depends on the weights of down and up.
SEBlockCall(se, t, g) ==
    IF Len(t.shape) # 4 THEN NoTensor
    ELSE LET B == t.shape[1]
             C == t.shape[2]
             H == t.shape[3]
             W == t.shape[4]
             x0 == Tensor(SEGateShape(se, t.shape), g)
             x1 == broadcast_to(x0, <<H, W, B, C>>)
             x2 == transpose(x1, <<2, 3, 0, 1>>)
         IN  Mul(t, x2)

\* BottleNeck.__call__, lines 66-68: the main path up to bn3
MainPath(f, s) ==
    BNShape(f.links.bn3, ConvShape(f.links.conv3,
        relu(BNShape(f.links.bn2, ConvShape(f.links.conv2,
            relu(BNShape(f.links.bn1, ConvShape(f.links.conv1, s))))))))

\* lines 69-70
Gated(f, h3) == IF f.add_seblock THEN SEBlockShape(f.links.se, h3) ELSE h3

\* line 71, the right operand; it is not evaluated when the left one raised
Shortcut(f, s, h) ==
    IF h = Err THEN Err
    ELSE IF f.use_conv THEN BNShape(f.links.bn4, ConvShape(f.links.conv4, s))
    ELSE s

\* line 71, the addition; the record says what the call did: its input, the
\* two operands of the addition, whether the addition was reached and
\* whether the SE block was evaluated
Residual(f, s, h3, h, sc) ==
    [y |-> ElementwiseShape(h, sc),
     log |-> <<[x |-> s, h |-> h, sc |-> sc, y |-> ElementwiseShape(h, sc),
               added |-> (h # Err /\ sc # Err),
               se |-> (f.add_seblock /\ h3 # Err)]>>]

WithShortcut(f, s, h3, h) == Residual(f, s, h3, h, Shortcut(f, s, h))

WithGate(f, s, h3) == WithShortcut(f, s, h3, Gated(f, h3))

\* BottleNeck.__call__
BottleNeckCall(f, s) == WithGate(f, s, MainPath(f, s))

\* the results of two consecutive runs of units, as one
Join(r, rest) == [y |-> rest.y, log |-> r.log \o rest.log]

\* Block.__call__: for f in self: x = f(x), over the units lo..hi; a unit
\* that raises ends the call.  The units are run in order, the range
\* being split in halves to keep the evaluation shallow.
RECURSIVE BlockRange(_, _, _, _)
Continue(children, mid, hi, r) ==
    IF r.y = Err THEN r ELSE Join(r, BlockRange(children, mid + 1, hi, r.y))

BlockRange(children, lo, hi, s) ==
    IF lo > hi THEN [y |-> s, log |-> <<>>]
    ELSE IF lo = hi THEN BottleNeckCall(children[lo], s)
    ELSE Continue(children, (lo + hi) \div 2, hi,
                  BlockRange(children, lo, (lo + hi) \div 2, s))

BlockCall(blk, s) == BlockRange(blk.children, 1, Len(blk.children), s)

\* a Block called inside ResNet.__call__ on the result r so far
Stage(blk, r) ==
    IF r.y = Err THEN r ELSE Join(r, BlockCall(blk, r.y))

\* ResNet.__call__, line 103
Stem(conv1, bn2, s) == relu(BNShape(bn2, ConvShape(conv1, s)))

\* line 108
Pooled(h) == IF h = Err THEN Err ELSE AveragePooling2DShape(h, <<h[3], h[4]>>)

\* line 109, with the W that fc7 allocates on its first call
Classifier(fc7, h7) == IF h7 = Err THEN fc7 ELSE LinearInit(fc7, h7)

Logits(m, conv1, r, h7) ==
    [y |-> LinearShape(Classifier(m.links.fc7, h7), h7),
     log |-> r.log,
     net |-> [m EXCEPT !.links.conv1 = conv1,
                       !.links.fc7 = Classifier(m.links.fc7, h7)]]

Stages(m, conv1, h0) ==
    Stage(m.links.res6, Stage(m.links.res5, Stage(m.links.res4,
        Stage(m.links.res3, [y |-> h0, log |-> <<>>]))))

AfterStages(m, conv1, r) == Logits(m, conv1, r, Pooled(r.y))

FromStem(m, s, conv1) == AfterStages(m, conv1, Stages(m, conv1, Stem(conv1, m.links.bn2, s)))

\* ResNet.__call__: the result, the units' log, and the link with the
\* parameters the call allocated
ResNetCall(m, s) == FromStem(m, s, ConvInit(m.links.conv1, s))

----------------------------------------------------------------------------
(* The program: a link is constructed, then called any number of times.    *)

Init ==
    /\ pc = "start"
    /\ call = NoCall
    /\ net = NoNet
    /\ x = Err
    /\ y = Err
    /\ log = <<>>
    /\ u = NoTensor
    /\ gate = NoTensor
    /\ out = NoTensor

Constructed(c, n) ==
    /\ pc = "start"
    /\ pc' = "constructed"
    /\ call' = c
    /\ net' = n
    /\ UNCHANGED <<x, y, log, u, gate, out>>

NewSEBlock ==
    \E n_channel \in 1..MaxDim :
        \E ratio \in {1, n_channel} :
            Constructed([ctor |-> "SEBlock", n_channel |-> n_channel, ratio |-> ratio],
                        SEBlock(n_channel, ratio))

NewBottleNeck ==
    \E n_in \in Widths, n_mid \in Widths, n_out \in Widths,
       stride \in 1..MaxStride, use_conv \in BOOLEAN, add_seblock \in BOOLEAN :
        Constructed([ctor |-> "BottleNeck", n_in |-> n_in, n_mid |-> n_mid,
                     n_out |-> n_out, stride |-> stride, use_conv |-> use_conv,
                     add_seblock |-> add_seblock],
                    BottleNeck(n_in, n_mid, n_out, stride, use_conv, add_seblock))

NewBlock ==
    \E n_in \in Widths, n_mid \in Widths, n_out \in Widths,
       n_bottlenecks \in 0..MaxBlocks, stride \in 1..MaxStride :
        Constructed([ctor |-> "Block", n_in |-> n_in, n_mid |-> n_mid,
                     n_out |-> n_out, n_bottlenecks |-> n_bottlenecks,
                     stride |-> stride],
                    Block(n_in, n_mid, n_out, n_bottlenecks, stride))

\* the n_blocks a ResNet is constructed with: every count at every stage,
\* and the default
NBlocksChoices ==
    {<<a, b, a, b>> : a \in 0..MaxBlocks, b \in 0..MaxBlocks} \cup {DefaultNBlocks}

NewResNet ==
    \E n_class \in NClasses, n_blocks \in NBlocksChoices :
        Constructed([ctor |-> "ResNet", n_class |-> n_class, n_blocks |-> n_blocks],
                    ResNet(n_class, n_blocks))

NewResNet50 ==
    \E n_class \in NClasses :
        Constructed([ctor |-> "ResNet50", n_class |-> n_class], ResNet50(n_class))

NewResNet101 ==
    \E n_class \in NClasses :
        Constructed([ctor |-> "ResNet101", n_class |-> n_class], ResNet101(n_class))

NewResNet152 ==
    \E n_class \in NClasses :
        Constructed([ctor |-> "ResNet152", n_class |-> n_class], ResNet152(n_class))

Sizes == (1..MaxSize) \cup {32}

InputShapes ==
    {<<B, C, H, W>> : B \in 1..MaxBatch, C \in InChannels, H \in Sizes, W \in Sizes}

\* A link is called on any input first; later calls repeat that input.
Called(s, r) ==
    /\ \/ pc = "constructed"
       \/ pc = "called" /\ s = x
    /\ pc' = "called"
    /\ x' = s
    /\ y' = r.y
    /\ log' = r.log
    /\ UNCHANGED <<call, u, gate, out>>

CallBottleNeck ==
    /\ net.kind = "BottleNeck"
    /\ \E s \in InputShapes : Called(s, BottleNeckCall(net, s))
    /\ UNCHANGED net

CallBlock ==
    /\ net.kind = "Block"
    /\ \E s \in InputShapes : Called(s, BlockCall(net, s))
    /\ UNCHANGED net

CallResNet ==
    /\ net.kind = "ResNet"
    /\ \E s \in InputShapes :
        LET r == ResNetCall(net, s)
        IN  Called(s, r) /\ net' = r.net

\* the tensors a SEBlock is called on
Input(shape, seed) ==
    Tensor(shape, [i \in Idx(shape) |-> 1 + ((seed + i[1] + 2 * i[2] + 3 * i[3] + 5 * i[4]) % 4)])

SEShapes == {<<B, C, H, W>> : B \in 1..MaxDim, C \in 1..MaxDim, H \in 1..MaxDim, W \in 1..MaxDim}

\* the data the gate can have: any, the weights being random
GateData(gs) == IF gs = Err THEN {<<>>} ELSE [Idx(gs) -> GateVals]

SEReturned(t, g, r) ==
    /\ pc' = "called"
    /\ u' = t
    /\ gate' = Tensor(SEGateShape(net, t.shape), g)
    /\ out' = r
    /\ x' = t.shape
    /\ y' = r.shape
    /\ UNCHANGED <<call, net, log>>

\* A SEBlock is called on any input first, the gate taking any values;
\* later calls repeat that input, and the weights give the same gate.
SECalled(t) ==
    /\ pc = "called" => t = u
    /\ \E g \in (IF pc = "called" THEN {gate.data}
                 ELSE GateData(SEGateShape(net, t.shape))) :
        SEReturned(t, g, SEBlockCall(net, t, g))

CallSEBlock ==
    /\ net.kind = "SEBlock"
    /\ \E s \in SEShapes, seed \in Seeds :
        /\ \/ pc = "constructed"
           \/ pc = "called" /\ s = x
        /\ SECalled(Input(s, seed))

Next ==
    \/ NewSEBlock
    \/ NewBottleNeck
    \/ NewBlock
    \/ NewResNet
    \/ NewResNet50
    \/ NewResNet101
    \/ NewResNet152
    \/ CallSEBlock
    \/ CallBottleNeck
    \/ CallBlock
    \/ CallResNet

Spec == Init /\ [][Next]_vars

----------------------------------------------------------------------------
(* What the properties read from a state. *)

ResNetCtors == {"ResNet", "ResNet50", "ResNet101", "ResNet152"}

\* the BottleNeck units of a link, in the order they are evaluated
Units(m) ==
    CASE m.kind = "BottleNeck" -> <<m>>
      [] m.kind = "Block" -> m.children
      [] m.kind = "ResNet" ->
            m.links.res3.children \o m.links.res4.children
            \o m.links.res5.children \o m.links.res6.children
      [] OTHER -> <<>>

\* the Blocks of a link
Blocks(m) ==
    CASE m.kind = "Block" -> <<m>>
      [] m.kind = "ResNet" -> <<m.links.res3, m.links.res4, m.links.res5, m.links.res6>>
      [] OTHER -> <<>>

HasProjection(b) == {"conv4", "bn4"} \subseteq DOMAIN b.links

HasGate(b) == "se" \in DOMAIN b.links

\* the parameters of a link whose array is not allocated, by their path
RECURSIVE Unallocated(_)
Unallocated(f) ==
    CASE f.kind \in {"Convolution2D", "BatchNormalization", "Linear"} ->
            {<<p>> : p \in {q \in DOMAIN f.params : ~f.params[q]}}
      [] f.kind = "Block" ->
            UNION {{<<ToString(i - 1)>> \o q : q \in Unallocated(f.children[i])} :
                   i \in 1..Len(f.children)}
      [] f.kind \in {"SEBlock", "BottleNeck", "ResNet"} ->
            UNION {{<<n>> \o q : q \in Unallocated(f.links[n])} : n \in DOMAIN f.links}
      [] OTHER -> {}

\* the n_blocks each constructor is specified to hand to ResNet.__init__
NBlocksOf(c) ==
    CASE c.ctor = "ResNet" -> c.n_blocks
      [] c.ctor = "ResNet50" -> <<3, 4, 6, 3>>
      [] c.ctor = "ResNet101" -> <<3, 4, 23, 3>>
      [] c.ctor = "ResNet152" -> <<3, 8, 36, 3>>

\* the number of units of each stage of a ResNet
StageSizes(m) ==
    <<Len(m.links.res3.children), Len(m.links.res4.children),
      Len(m.links.res5.children), Len(m.links.res6.children)>>

\* the ResNet constructed by the preset name, and its forward call, are
\* those of ResNet(n_class, counts)
PresetIs(name, counts) ==
    (pc # "start" /\ call.ctor = name)
    => /\ StageSizes(net) = counts
       /\ pc = "constructed" => net = ResNet(call.n_class, counts)
       /\ pc = "called" =>
            LET r == ResNetCall(ResNet(call.n_class, counts), x)
            IN  y = r.y /\ log = r.log /\ net = r.net

\* a unit has a projection shortcut exactly when n_in # n_out or stride > 1
ProjectionIffNeeded(b) == HasProjection(b) <=> (b.n_in # b.n_out \/ b.stride > 1)

\* the extent a 1x1 convolution of the given stride leaves of size
Strided(size, stride) == ((size - 1) \div stride) + 1

----------------------------------------------------------------------------
(* C1: a default ResNet(n_class=10), n_blocks = [3, 4, 6, 3], called on an *)
(* input of shape (1, 3, 32, 32) returns a tensor of shape (1, 10): the    *)
(* stem leaves 30x30, its 16 units end in (1, 2048, 4, 4), and pooling and *)
(* the linear layer end in (batch, n_class).                               *)
C1_DefaultOutputShape ==
    (/\ pc = "called"
     /\ call.ctor = "ResNet"
     /\ call.n_class = 10
     /\ call.n_blocks = <<3, 4, 6, 3>>
     /\ x = <<1, 3, 32, 32>>)
    => /\ y = <<1, 10>>
       /\ Len(log) = 16
       /\ log[1].x = <<1, 64, 30, 30>>
       /\ log[16].y = <<1, 2048, 4, 4>>

C1_Witness ==
    /\ pc = "called"
    /\ call.ctor = "ResNet"
    /\ call.n_class = 10
    /\ call.n_blocks = <<3, 4, 6, 3>>
    /\ x = <<1, 3, 32, 32>>
    /\ y = <<1, 10>>

(* C2: in a forward call of a ResNet whose n_blocks entries are all >= 1,  *)
(* on an input with H >= 3 and W >= 3, every BottleNeck unit reaches its   *)
(* addition, and the two operands of every addition have the same shape.   *)
C2_AdditionsAgree ==
    (/\ pc = "called"
     /\ call.ctor \in ResNetCtors
     /\ \A i \in 1..4 : NBlocksOf(call)[i] >= 1
     /\ x[3] >= 3
     /\ x[4] >= 3)
    => /\ Len(log) = NBlocksOf(call)[1] + NBlocksOf(call)[2]
                     + NBlocksOf(call)[3] + NBlocksOf(call)[4]
       /\ \A k \in 1..Len(log) :
            /\ log[k].added
            /\ log[k].h = log[k].sc
            /\ log[k].y = log[k].h

C2_Witness ==
    /\ pc = "called"
    /\ call.ctor = "ResNet"
    /\ call.n_blocks = <<2, 1, 2, 1>>
    /\ x[3] = 3
    /\ x[4] = 32
    /\ Len(log) = 6
    /\ log[6].y = <<x[1], 2048, 1, 4>>
    /\ \A k \in 1..Len(log) : log[k].added /\ log[k].h = log[k].sc

(* C3: no BottleNeck with an identity shortcut (use_conv=False) and        *)
(* n_in # n_out or stride # 1 exists after construction.                   *)
C3_IdentityShortcutRejected ==
    (pc # "start" /\ call.ctor = "BottleNeck" /\ ~call.use_conv)
    => (call.n_in = call.n_out /\ call.stride = 1)

(* C4: no Block exists that was constructed with n_bottlenecks <= 0,       *)
(* directly or through an n_blocks entry of ResNet.                        *)
C4_NonPositiveCountRejected ==
    /\ (pc # "start" /\ call.ctor = "Block") => call.n_bottlenecks >= 1
    /\ (pc # "start" /\ call.ctor = "ResNet") => \A i \in 1..4 : call.n_blocks[i] >= 1

(* C5: a Block(n_in, n_mid, n_out, k, stride) with k >= 1 called on an     *)
(* input (B, n_in, H, W) returns n_out channels; its first unit maps       *)
(* (H, W) to the strided size and each of the k-1 remaining units returns  *)
(* the shape it was given.                                                 *)
C5_BlockStridesOnce ==
    (/\ pc = "called"
     /\ call.ctor = "Block"
     /\ call.n_bottlenecks >= 1
     /\ x[2] = call.n_in)
    => LET first == <<x[1], call.n_out, Strided(x[3], call.stride),
                      Strided(x[4], call.stride)>>
       IN  /\ y = first
           /\ Len(log) = call.n_bottlenecks
           /\ log[1].x = x
           /\ log[1].y = first
           /\ \A k \in 2..Len(log) : log[k].x = first /\ log[k].y = first

C5_Witness ==
    /\ pc = "called"
    /\ call.ctor = "Block"
    /\ call.n_bottlenecks = 2
    /\ call.stride = 2
    /\ call.n_in # call.n_out
    /\ x = <<1, call.n_in, 32, 3>>
    /\ y = <<1, call.n_out, 16, 2>>
    /\ Len(log) = 2

(* C6: every parameter of a constructed link is allocated when its         *)
(* constructor returns, before any forward call.                           *)
C6_AllocatedAtConstruction == pc = "constructed" => Unallocated(net) = {}

(* C6, amended: when the constructor returns, every parameter is allocated *)
(* except, in a ResNet, the weights of conv1 and fc7, whose input widths   *)
(* are None; the first forward call allocates conv1.W, and fc7.W when it   *)
(* reaches the classifier, so that after a forward call that returned      *)
(* every parameter is allocated.                                           *)
C6_DeferredInputWidths ==
    /\ (pc = "constructed" /\ net.kind = "ResNet")
        => Unallocated(net) = {<<"conv1", "W">>, <<"fc7", "W">>}
    /\ (pc # "start" /\ net.kind # "ResNet") => Unallocated(net) = {}
    /\ (pc = "called" /\ net.kind = "ResNet")
        => Unallocated(net) = IF y = Err THEN {<<"fc7", "W">>} ELSE {}

C6_Witness ==
    /\ pc = "called"
    /\ net.kind = "ResNet"
    /\ y # Err
    /\ net.links.conv1.in_channels = 3
    /\ net.links.fc7.in_size = 2048
    /\ Unallocated(net) = {}

(* C7: ResNet50(C), ResNet101(C) and ResNet152(C) build the link that      *)
(* ResNet(C, [3,4,6,3]), ResNet(C, [3,4,23,3]) and ResNet(C, [3,8,36,3])   *)
(* build, with that many units per stage, and a forward call of a preset   *)
(* does what a forward call of that ResNet does.                           *)
C7_PresetsAreResNets ==
    /\ PresetIs("ResNet50", <<3, 4, 6, 3>>)
    /\ PresetIs("ResNet101", <<3, 4, 23, 3>>)
    /\ PresetIs("ResNet152", <<3, 8, 36, 3>>)

C7_Witness ==
    /\ pc = "called"
    /\ call.ctor = "ResNet152"
    /\ StageSizes(net) = <<3, 8, 36, 3>>
    /\ y = <<x[1], call.n_class>>

(* C8: every BottleNeck that can be constructed has a projection shortcut  *)
(* (conv4, bn4) if and only if n_in # n_out or stride > 1.                 *)
C8_ProjectionIffNeeded ==
    \A k \in 1..Len(Units(net)) : ProjectionIffNeeded(Units(net)[k])

(* C8, amended: every BottleNeck inside a constructed ResNet has a         *)
(* projection shortcut if and only if n_in # n_out or stride > 1; in a     *)
(* Block the first unit always has one, also when n_in = n_out and         *)
(* stride = 1, and the remaining units, which have n_in = n_out and        *)
(* stride = 1, never; a BottleNeck constructed directly has one if and     *)
(* only if use_conv is true.                                               *)
C8_ProjectionByConstructor ==
    /\ net.kind = "ResNet" =>
        \A k \in 1..Len(Units(net)) : ProjectionIffNeeded(Units(net)[k])
    /\ \A j \in 1..Len(Blocks(net)) :
        LET units == Blocks(net)[j].children
        IN  \A k \in 1..Len(units) :
                /\ HasProjection(units[k]) <=> k = 1
                /\ k > 1 => (units[k].n_in = units[k].n_out /\ units[k].stride = 1)
    /\ net.kind = "BottleNeck" => (HasProjection(net) <=> call.use_conv)

C8_Witness ==
    /\ net.kind = "Block"
    /\ call.n_in = call.n_out
    /\ call.stride = 1
    /\ call.n_bottlenecks = 2
    /\ HasProjection(net.children[1])
    /\ ~HasProjection(net.children[2])

(* C9: a SEBlock called on u of shape (B, C, H, W), C its n_channel,       *)
(* returns a tensor of shape (B, C, H, W) with                             *)
(* out[b, c, h, w] = u[b, c, h, w] * gate[b, c].                           *)
C9_GatePlacement ==
    (pc = "called" /\ call.ctor = "SEBlock" /\ x[2] = call.n_channel)
    => /\ gate.shape = <<x[1], x[2]>>
       /\ out.shape = x
       /\ u.shape = x
       /\ \A i \in Idx(x) : out.data[i] = u.data[i] * gate.data[<<i[1], i[2]>>]

C9_Witness ==
    /\ pc = "called"
    /\ call.ctor = "SEBlock"
    /\ x = <<2, 2, 2, 2>>
    /\ out.shape = x
    /\ gate.data[<<1, 2>>] # gate.data[<<2, 1>>]
    /\ gate.data[<<1, 1>>] # gate.data[<<2, 2>>]
    /\ out.data[<<1, 2, 2, 1>>] = u.data[<<1, 2, 2, 1>>] * gate.data[<<1, 2>>]

(* C10: no BottleNeck of a constructed Block or ResNet (presets included)  *)
(* has add_seblock set or owns a SEBlock, and no forward call of one       *)
(* evaluates a SEBlock; a BottleNeck constructed directly owns a SEBlock   *)
(* if and only if add_seblock=True was passed.                             *)
C10_NoGateInBlocks ==
    /\ net.kind \in {"Block", "ResNet"} =>
        /\ \A k \in 1..Len(Units(net)) :
            ~Units(net)[k].add_seblock /\ ~HasGate(Units(net)[k])
        /\ \A k \in 1..Len(log) : ~log[k].se
    /\ net.kind = "BottleNeck" =>
        /\ HasGate(net) <=> call.add_seblock
        /\ \A k \in 1..Len(log) : log[k].se => call.add_seblock

C10_Witness ==
    /\ pc = "called"
    /\ call.ctor = "ResNet50"
    /\ y # Err
    /\ Len(log) = 16
    /\ \A k \in 1..Len(log) : log[k].added /\ ~log[k].se
====
